---- MODULE Spec2Model ----
\* The redirect-and-analytics pipeline of link-fusion: the ShortenedURL and
\* Click models (core/models.py) and the views that serve a short code
\* (core/views.py: RedirectView, PasswordPromptView, ToggleLinkView,
\* DeleteLinkView).
\*
\* The specifications share the variables:
\*   Spec         every handler runs as one step (requests do not overlap);
\*   ConcSpec     RedirectView.get is split at its three database operations
\*                (SELECT of the link, INSERT of the Click, UPDATE of the link)
\*                and several requests interleave; the UPDATE may fail;
\*   RaceSpec     the same three steps with workers that serve request after
\*                request;
\*   ScopeSpec    two password-protected links and two sessions;
\*   ClickSpec    the enrichment of Click rows (core/utils.py) under several
\*                deployments, and the admin's later save of a row;
\*   EnvSpec      redirects under every behaviour of the parser package and
\*                the geolocation providers;
\*   UtilSpec     the functions of core/utils.py called on their own;
\*   CreateSpec   the three views that insert a ShortenedURL;
\*   BackfillSpec the management command populate_analytics.
EXTENDS Integers, Sequences, FiniteSets, TLC

\* ------------------------------------------------------------------ bounds
MaxClicks == 3      \* clicks is capped here to keep the state space finite
MaxTime   == 3      \* the clock stops here
MaxReqs   == 2      \* request slots of ConcSpec
MaxRows   == 2      \* Click rows of ClickSpec (the quota of its link)
MaxKeywords == 3    \* keywords put into one user-agent string of UtilSpec

\* --------------------------------------------------------------- constants
None == -1          \* Python None of a nullable column (expires_at, max_clicks)
SESSION_EXPIRY == 2 \* set_expiry(3600): one hour, in clock ticks of 1800 s

Stored   == {"abc123"}              \* short codes that have a row at the start
Missing  == {"zzz999"}              \* a short code that never has a row
Codes    == Stored \cup Missing
Other    == {"xyz789"}              \* a second link, stored in ScopeSpec only
ScopeCodes == Stored \cup Other
Sessions == {"s1", "s2"}            \* browser sessions
Reqs     == 1..MaxReqs

RawPasswords == {"", "secret", "wrong"}   \* what a visitor can type
OwnerPasswords == {"", "secret"}          \* what the owner types in LinkForm
UserAgents   == {"Mozilla/5.0 Chrome"}
ClientIPs    == {"127.0.0.1"}

\* What the request's surroundings do: the user_agents package and the two
\* geolocation providers. OfflineEnv: package not installed, no network.
Raise == [kind |-> "raise"]
Timeout == [kind |-> "raise", exc |-> "Timeout"]
Http(status_code, json) ==
    [kind |-> "response", status_code |-> status_code, json |-> json]
Malformed == [kind |-> "malformed"]
Dict(data) == [kind |-> "dict", data |-> data]
OfflineEnv == [ua_lib |-> [kind |-> "missing"],
               primary |-> Raise, secondary |-> Raise]
Envs == {OfflineEnv}
Destination  == "https://example.com/page"

VARIABLES
    links,          \* table ShortenedURL: short_code -> row
    click_records,  \* table Click: the rows in insertion order
    sessions,       \* session store: session -> [verified, expire_date]
    now,            \* timezone.now()
    response,       \* the response of the last handler that ran (Spec)
    reqs            \* the in-flight requests (ConcSpec)

vars == <<links, click_records, sessions, now, response, reqs>>

\* ----------------------------------------------------- django.contrib.auth
\* make_password/check_password of django.contrib.auth.hashers: the stored
\* value is an encoded hash, never the raw text; '' is modelled as << >>.
make_password(raw) == <<"pbkdf2_sha256", raw>>

\* any stored hash accepted: `return bool(encoded)`
hashers_check_password_nonempty(raw, encoded) == Len(encoded) > 0

hashers_check_password(raw, encoded) ==
    /\ Len(encoded) = 2
    /\ encoded[1] = "pbkdf2_sha256"
    /\ encoded[2] = raw

\* ------------------------------------------------------------ ShortenedURL
\* the comparison written as >=
is_expired_ge(url, t) ==
    IF url.expires_at # None THEN t >= url.expires_at ELSE FALSE

is_expired(url, t) ==
    IF url.expires_at # None THEN t > url.expires_at ELSE FALSE

\* the quota compared after the increment: clicks > max_clicks
can_be_accessed_gt(url, t) ==
    IF ~url.is_active THEN FALSE
    ELSE IF is_expired(url, t) THEN FALSE
    ELSE IF (url.max_clicks # None /\ url.max_clicks # 0)
            /\ url.clicks > url.max_clicks THEN FALSE
    ELSE TRUE

\* the is_active test left out
can_be_accessed_no_active(url, t) ==
    IF is_expired(url, t) THEN FALSE
    ELSE IF (url.max_clicks # None /\ url.max_clicks # 0)
            /\ url.clicks >= url.max_clicks THEN FALSE
    ELSE TRUE

\* `self.max_clicks and ...` is Python truthiness: None and 0 are both false.
can_be_accessed(url, t) ==
    IF ~url.is_active THEN FALSE
    ELSE IF is_expired(url, t) THEN FALSE
    ELSE IF (url.max_clicks # None /\ url.max_clicks # 0)
            /\ url.clicks >= url.max_clicks THEN FALSE
    ELSE TRUE

\* `self.password is not None`: true of the empty string as well
has_password_not_none(url) == TRUE

has_password(url) == url.password # << >>

\* an unset password ported as "always deny"
check_password_empty_denies(url, raw) ==
    IF url.password = << >> THEN FALSE
    ELSE hashers_check_password(raw, url.password)

check_password(url, raw) ==
    IF url.password = << >> THEN TRUE
    ELSE hashers_check_password(raw, url.password)

\* the raw text stored as it is, not hashed
set_password_plain(url, raw) ==
    IF raw # "" THEN [url EXCEPT !.password = <<"plain", raw>>]
    ELSE [url EXCEPT !.password = << >>]

set_password(url, raw) ==
    IF raw # "" THEN [url EXCEPT !.password = make_password(raw)]
    ELSE [url EXCEPT !.password = << >>]

\* ------------------------------------------------------------------- Click
\* Python's s[:n].
Slice(s, n) == IF Len(s) <= n THEN s ELSE SubSeq(s, 1, n)

UpperCase == <<"A", "B", "C", "D", "E", "F", "G", "H", "I", "J", "K", "L", "M",
               "N", "O", "P", "Q", "R", "S", "T", "U", "V", "W", "X", "Y", "Z">>
LowerCase == <<"a", "b", "c", "d", "e", "f", "g", "h", "i", "j", "k", "l", "m",
               "n", "o", "p", "q", "r", "s", "t", "u", "v", "w", "x", "y", "z">>

lower_char(ch) ==
    IF \E i \in 1..26 : UpperCase[i] = ch
    THEN LowerCase[CHOOSE i \in 1..26 : UpperCase[i] = ch]
    ELSE ch

lower_identity(s) == s

\* str.lower()
RECURSIVE lower(_)
lower(s) ==
    IF Len(s) = 0 THEN ""
    ELSE lower_char(SubSeq(s, 1, 1)) \o lower(SubSeq(s, 2, Len(s)))

\* Python's `kw in ua` on strings.
Contains(ua, kw) ==
    \E i \in 1..(Len(ua) - Len(kw) + 1) : SubSeq(ua, i, i + Len(kw) - 1) = kw

UnknownUA == [device_type |-> "Unknown", browser |-> "Unknown",
              operating_system |-> "Unknown"]

parse_user_agent_fallback(user_agent_string) ==
    LET ua == lower(user_agent_string)
        has(kw) == Contains(ua, kw)
    IN  [device_type |->
             IF has("mobile") \/ has("android") \/ has("iphone") \/ has("ipod")
             THEN "Mobile"
             ELSE IF has("ipad") \/ has("tablet") THEN "Tablet"
             ELSE "Desktop",
         browser |->
             IF has("chrome") /\ ~has("edge") THEN "Chrome"
             ELSE IF has("firefox") THEN "Firefox"
             ELSE IF has("safari") /\ ~has("chrome") THEN "Safari"
             ELSE IF has("edge") THEN "Edge"
             ELSE IF has("opera") \/ has("opr") THEN "Opera"
             ELSE IF has("msie") \/ has("trident") THEN "Internet Explorer"
             ELSE "Unknown",
         operating_system |->
             IF has("windows") THEN "Windows"
             ELSE IF has("macintosh") \/ has("mac os") THEN "macOS"
             ELSE IF has("linux") THEN "Linux"
             ELSE IF has("android") THEN "Android"
             ELSE IF has("ios") \/ has("iphone") \/ has("ipad") THEN "iOS"
             ELSE "Unknown"]

\* f"{family}" then += f" {version_string}" when the version is not empty.
FamilyVersion(part) ==
    IF part.version_string # "" THEN part.family \o " " \o part.version_string
    ELSE part.family

\* env.ua_lib is what the user_agents package does in this deployment: kind
\* "missing" (ImportError, HAS_USER_AGENTS = False), "raises" (ua_parse
\* throws) or "parsed" (the object ua_parse returns).
parse_user_agent(user_agent_string, env) ==
    IF user_agent_string = "" THEN UnknownUA
    ELSE IF env.ua_lib.kind = "missing"
    THEN parse_user_agent_fallback(user_agent_string)
    ELSE IF env.ua_lib.kind = "raises"
    THEN parse_user_agent_fallback(user_agent_string)
    ELSE LET user_agent == env.ua_lib
         IN  [device_type |-> IF user_agent.is_mobile THEN "Mobile"
                              ELSE IF user_agent.is_tablet THEN "Tablet"
                              ELSE IF user_agent.is_pc THEN "Desktop"
                              ELSE "Unknown",
              browser |-> Slice(FamilyVersion(user_agent.browser), 100),
              operating_system |-> Slice(FamilyVersion(user_agent.os), 100)]

\* JSON values of a provider's body: a string, null, or a number.
JStr(v) == [type |-> "str", v |-> v]
JNull   == [type |-> "null", v |-> ""]
JNum    == [type |-> "num", v |-> ""]

\* dict.get(key, default)
dict_get(data, key, default) == IF key \in DOMAIN data THEN data[key] ELSE default

\* `x[:100] if x else 'Unknown'`: null and '' are falsy; slicing a number
\* raises TypeError.
Truthy(v) == v.type = "num" \/ (v.type = "str" /\ v.v # "")
SliceRaises(v) == Truthy(v) /\ v.type # "str"
OrUnknown(v) == IF Truthy(v) THEN Slice(v.v, 100) ELSE "Unknown"

LocalIPs_numeric_only == {"127.0.0.1", "::1"}

LocalIPs == {"127.0.0.1", "::1", "localhost"}

\* How the first try block ends: "return", "except" (requests.get or
\* response.json() or the slicing raised) or "fall" (status is not 200).
primary_outcome(env) ==
    IF env.primary.kind = "raise" THEN "except"
    ELSE IF env.primary.status_code # 200 THEN "fall"
    ELSE IF env.primary.json.kind # "dict" THEN "except"
    ELSE LET data == env.primary.json.data
             country == dict_get(data, "country_name", JStr("Unknown"))
             city == dict_get(data, "city", JStr("Unknown"))
         IN  IF SliceRaises(country) \/ SliceRaises(city) THEN "except"
             ELSE "return"

secondary_outcome_any_body(env) ==
    IF env.secondary.kind = "raise" THEN "except"
    ELSE IF env.secondary.json.kind # "dict" THEN "except"
    ELSE "return"

\* The nested try block of the except handler.
secondary_outcome(env) ==
    IF env.secondary.kind = "raise" THEN "except"
    ELSE IF env.secondary.status_code # 200 THEN "fall"
    ELSE IF env.secondary.json.kind # "dict" THEN "except"
    ELSE LET data == env.secondary.json.data
             country == dict_get(data, "country", JStr("Unknown"))
             city == dict_get(data, "city", JStr("Unknown"))
         IN  IF dict_get(data, "status", JNull) # JStr("success") THEN "fall"
             ELSE IF SliceRaises(country) \/ SliceRaises(city) THEN "except"
             ELSE "return"

\* calls lists the providers that were sent a request, in order.
get_location_from_ip(ip_address, env) ==
    IF ip_address = "" \/ ip_address \in LocalIPs
    THEN [country |-> "Local", city |-> "Local", calls |-> << >>]
    ELSE IF primary_outcome(env) = "return"
    THEN LET data == env.primary.json.data
         IN  [country |-> OrUnknown(dict_get(data, "country_name", JStr("Unknown"))),
              city |-> OrUnknown(dict_get(data, "city", JStr("Unknown"))),
              calls |-> <<"ipapi.co">>]
    ELSE IF primary_outcome(env) = "except" /\ secondary_outcome(env) = "return"
    THEN LET data == env.secondary.json.data
         IN  [country |-> OrUnknown(dict_get(data, "country", JStr("Unknown"))),
              city |-> OrUnknown(dict_get(data, "city", JStr("Unknown"))),
              calls |-> <<"ipapi.co", "ip-api.com">>]
    ELSE [country |-> "Unknown", city |-> "Unknown",
          calls |-> IF primary_outcome(env) = "except"
                    THEN <<"ipapi.co", "ip-api.com">> ELSE <<"ipapi.co">>]

\* Click(url=..., ip_address=..., user_agent=...): an unsaved instance; the
\* five derived columns have their field default ''.
Click(c, ip, ua) ==
    [pk |-> None, url |-> c, ip_address |-> ip, user_agent |-> ua,
     country |-> "", city |-> "",
     device_type |-> "", browser |-> "", operating_system |-> ""]

populate_analytics_data(self, env) ==
    LET ua_data == parse_user_agent(self.user_agent, env)
        location_data == get_location_from_ip(self.ip_address, env)
        parsed == IF self.user_agent # ""
                  THEN [self EXCEPT !.device_type = ua_data.device_type,
                                    !.browser = ua_data.browser,
                                    !.operating_system = ua_data.operating_system]
                  ELSE self
    IN  IF parsed.ip_address # ""
        THEN [parsed EXCEPT !.country = location_data.country,
                            !.city = location_data.city]
        ELSE parsed

Click_save_always_populates(self, env) == populate_analytics_data(self, env)

\* Click.save(): the instance as super().save() writes it.
Click_save(self, env) ==
    IF self.pk = None \/ self.pk = 0
    THEN populate_analytics_data(self, env)
    ELSE self

\* The columns of the row an instance is written to.
Columns(self) ==
    [url |-> self.url, ip_address |-> self.ip_address,
     user_agent |-> self.user_agent,
     country |-> self.country, city |-> self.city,
     device_type |-> self.device_type, browser |-> self.browser,
     operating_system |-> self.operating_system]

\* Click.objects.create(url=..., ip_address=..., user_agent=...)
Click_create(c, ip, ua, env) == Columns(Click_save(Click(c, ip, ua), env))

RowsOf(c) == {i \in 1..Len(click_records) : click_records[i].url = c}

\* ----------------------------------------------------------------- session
\* request.session.get('password_verified_<code>', False): an expired
\* session is an empty one.
\* request.session.get(key, True): a missing key counts as verified
session_get_default_true(s, c, t) == TRUE

\* one key 'password_verified' for every short code
session_get_any_code(s, c, t) ==
    /\ sessions[s].expire_date # None
    /\ sessions[s].expire_date > t
    /\ sessions[s].verified # {}

session_get(s, c, t) ==
    /\ sessions[s].expire_date # None
    /\ sessions[s].expire_date > t
    /\ c \in sessions[s].verified

\* A session as it starts; marked_at notes when each short code was last
\* verified (the store itself only keeps the flag and one expire_date).
NewSession == [verified |-> {}, expire_date |-> None,
               marked_at |-> [c \in Codes \cup ScopeCodes |-> None]]

\* The session as the request loads it: an expired one starts afresh.
session_load(s, t) ==
    IF sessions[s].expire_date # None /\ sessions[s].expire_date > t
    THEN sessions[s] ELSE NewSession

\* the flag stored under a key the redirect does not read
session_mark_other_key(s, c, t) ==
    [session_load(s, t) EXCEPT !.expire_date = t + SESSION_EXPIRY]

\* request.session[key] = True; request.session.set_expiry(3600): the
\* modified session is saved with expire_date = now + 3600, whatever it
\* already holds.
session_mark(s, c, t) ==
    [session_load(s, t) EXCEPT
        !.verified = @ \cup {c},
        !.marked_at = [@ EXCEPT ![c] = t],
        !.expire_date = t + SESSION_EXPIRY]

\* -------------------------------------------------------------------- Init
ExpiryChoices   == {None, 1}
QuotaChoices    == {None, 0, 1, 2}
PasswordChoices == {<< >>, make_password("secret")}

NoResponse == [view |-> "none", session |-> "", short_code |-> "",
               status |-> 0, template |-> "", location |-> << >>,
               error_message |-> FALSE, at |-> 0,
               d_clicks |-> 0, d_rows |-> 0,
               links_changed |-> FALSE, sessions_changed |-> FALSE,
               submitted |-> "", follows |-> ""]

NoRow == [original_url |-> "", clicks |-> 0, is_active |-> FALSE,
          expires_at |-> None, max_clicks |-> None, password |-> << >>]

IdleReq == [pc |-> "idle", session |-> "", short_code |-> "", url |-> NoRow,
            ip |-> "", ua |-> "", status |-> 0, result |-> "",
            did_click |-> FALSE, did_incr |-> FALSE]

\* A freshly created link: clicks = 0 and is_active = True are the column
\* defaults; the owner chooses expiry, quota and password.
Init ==
    /\ links \in [Stored -> [original_url : {Destination},
                             clicks       : {0},
                             is_active    : {TRUE},
                             expires_at   : ExpiryChoices,
                             max_clicks   : QuotaChoices,
                             password     : PasswordChoices]]
    /\ click_records = << >>
    /\ sessions = [s \in Sessions |-> NewSession]
    /\ now = 0
    /\ response = NoResponse
    /\ reqs = [r \in Reqs |-> IdleReq]

\* Where a reply leaves the password sub-flow of its session and short code:
\* sent to the prompt, one or several wrong passwords in a row, or verified
\* right after the prompt.
Stage(reply) ==
    IF reply.view = "redirect" /\ reply.status = 302
       /\ reply.location = <<"core:password_prompt", reply.short_code>>
    THEN "prompted"
    ELSE IF reply.view = "password_prompt" /\ reply.error_message
    THEN (IF reply.follows \in {"wrong", "wrong_again"} THEN "wrong_again"
          ELSE "wrong")
    ELSE IF reply.view = "password_prompt" /\ reply.status = 302
    THEN (IF reply.follows = "prompted" THEN "verified_after_prompt"
          ELSE "verified")
    ELSE ""

\* What the handler that is running did to the tables, measured on the step.
Reply(view, s, c, status, template, location, err) ==
    [view |-> view, session |-> s, short_code |-> c,
     status |-> status, template |-> template, location |-> location,
     error_message |-> err, at |-> now,
     d_clicks |-> IF c \in DOMAIN links /\ c \in DOMAIN links'
                  THEN links'[c].clicks - links[c].clicks ELSE 0,
     d_rows |-> Len(click_records') - Len(click_records),
     links_changed |-> links' # links,
     sessions_changed |-> sessions' # sessions,
     submitted |-> "",
     follows |-> IF response.session = s /\ response.short_code = c
                 THEN Stage(response) ELSE ""]

\* The deployment in which the request's Click was enriched.
InDeployment(env, reply) == [env |-> env] @@ reply

\* request.POST['password'] of the request that was answered.
Submitted(raw, reply) == [reply EXCEPT !.submitted = raw]

\* the 404 page rendered without status=404
render_404_status_200(view, s, c) ==
    response' = Reply(view, s, c, 200, "404", << >>, FALSE)

\* get_object_or_404 raises Http404: the 404 page, status 404.
render_404(view, s, c) ==
    response' = Reply(view, s, c, 404, "404", << >>, FALSE)

\* ------------------------------------------------------------ RedirectView
\* the Click created before the access check instead of after it
RedirectView_get_track_first(s, c, ip, ua, env) ==
    /\ IF c \notin DOMAIN links
       THEN /\ UNCHANGED <<links, click_records, sessions>>
            /\ render_404("redirect", s, c)
       ELSE LET url == links[c] IN
            IF ~can_be_accessed(url, now)
            THEN /\ click_records' = Append(click_records, Click_create(c, ip, ua, env))
                 /\ UNCHANGED <<links, sessions>>
                 /\ response' = Reply("redirect", s, c, 200,
                                      "link_not_available", << >>, FALSE)
            ELSE IF has_password(url) /\ ~session_get(s, c, now)
            THEN /\ click_records' = Append(click_records, Click_create(c, ip, ua, env))
                 /\ UNCHANGED <<links, sessions>>
                 /\ response' = Reply("redirect", s, c, 302, "",
                                      <<"core:password_prompt", c>>, FALSE)
            ELSE /\ url.clicks < MaxClicks
                 /\ click_records' = Append(click_records, Click_create(c, ip, ua, env))
                 /\ links' = [links EXCEPT ![c] = [url EXCEPT !.clicks = @ + 1]]
                 /\ UNCHANGED sessions
                 /\ response' = InDeployment(env,
                                    Reply("redirect", s, c, 302, "",
                                          <<"url", url.original_url>>, FALSE))
    /\ UNCHANGED <<now, reqs>>

\* the password gate placed before the access check
RedirectView_get_gate_first(s, c, ip, ua, env) ==
    /\ IF c \notin DOMAIN links
       THEN /\ UNCHANGED <<links, click_records, sessions>>
            /\ render_404("redirect", s, c)
       ELSE LET url == links[c] IN
            IF has_password(url) /\ ~session_get(s, c, now)
            THEN /\ UNCHANGED <<links, click_records, sessions>>
                 /\ response' = Reply("redirect", s, c, 302, "",
                                      <<"core:password_prompt", c>>, FALSE)
            ELSE IF ~can_be_accessed(url, now)
            THEN /\ UNCHANGED <<links, click_records, sessions>>
                 /\ response' = Reply("redirect", s, c, 200,
                                      "link_not_available", << >>, FALSE)
            ELSE /\ url.clicks < MaxClicks
                 /\ click_records' = Append(click_records, Click_create(c, ip, ua, env))
                 /\ links' = [links EXCEPT ![c] = [url EXCEPT !.clicks = @ + 1]]
                 /\ UNCHANGED sessions
                 /\ response' = InDeployment(env,
                                    Reply("redirect", s, c, 302, "",
                                          <<"url", url.original_url>>, FALSE))
    /\ UNCHANGED <<now, reqs>>

RedirectView_get_enrichment_uncaught(s, c, ip, ua, env) ==
    /\ IF c \notin DOMAIN links
       THEN /\ UNCHANGED <<links, click_records, sessions>>
            /\ render_404("redirect", s, c)
       ELSE LET url == links[c] IN
            IF ~can_be_accessed(url, now)
            THEN /\ UNCHANGED <<links, click_records, sessions>>
                 /\ response' = Reply("redirect", s, c, 200,
                                      "link_not_available", << >>, FALSE)
            ELSE IF has_password(url) /\ ~session_get(s, c, now)
            THEN /\ UNCHANGED <<links, click_records, sessions>>
                 /\ response' = Reply("redirect", s, c, 302, "",
                                      <<"core:password_prompt", c>>, FALSE)
            ELSE IF \/ ua # "" /\ env.ua_lib.kind = "raises"
                    \/ /\ ip # "" /\ ip \notin LocalIPs
                       /\ env.primary.kind = "raise"
                       /\ env.secondary.kind = "raise"
            THEN /\ UNCHANGED <<links, click_records, sessions>>
                 /\ response' = InDeployment(env,
                                    Reply("redirect", s, c, 500, "", << >>, FALSE))
            ELSE /\ url.clicks < MaxClicks
                 /\ click_records' = Append(click_records, Click_create(c, ip, ua, env))
                 /\ links' = [links EXCEPT ![c] = [url EXCEPT !.clicks = @ + 1]]
                 /\ UNCHANGED sessions
                 /\ response' = InDeployment(env,
                                    Reply("redirect", s, c, 302, "",
                                          <<"url", url.original_url>>, FALSE))
    /\ UNCHANGED <<now, reqs>>

RedirectView_get(s, c, ip, ua, env) ==
    /\ IF c \notin DOMAIN links
       THEN /\ UNCHANGED <<links, click_records, sessions>>
            /\ render_404("redirect", s, c)
       ELSE LET url == links[c] IN
            IF ~can_be_accessed(url, now)
            THEN /\ UNCHANGED <<links, click_records, sessions>>
                 /\ response' = Reply("redirect", s, c, 200,
                                      "link_not_available", << >>, FALSE)
            ELSE IF has_password(url) /\ ~session_get(s, c, now)
            THEN /\ UNCHANGED <<links, click_records, sessions>>
                 /\ response' = Reply("redirect", s, c, 302, "",
                                      <<"core:password_prompt", c>>, FALSE)
            ELSE /\ url.clicks < MaxClicks
                 /\ click_records' = Append(click_records, Click_create(c, ip, ua, env))
                 /\ links' = [links EXCEPT ![c] = [url EXCEPT !.clicks = @ + 1]]
                 /\ UNCHANGED sessions
                 /\ response' = InDeployment(env,
                                    Reply("redirect", s, c, 302, "",
                                          <<"url", url.original_url>>, FALSE))
    /\ UNCHANGED <<now, reqs>>

\* ------------------------------------------------------ PasswordPromptView
\* PasswordPromptForm: password is a required CharField, so an empty
\* submission is not valid.
PasswordPromptForm_is_valid(raw) == raw # ""

\* the access policy not evaluated again at submission
PasswordPromptView_post_no_recheck(s, c, raw) ==
    /\ IF c \notin DOMAIN links
       THEN /\ UNCHANGED <<links, click_records, sessions>>
            /\ render_404("password_prompt", s, c)
       ELSE LET url == links[c] IN
            IF ~PasswordPromptForm_is_valid(raw)
            THEN /\ UNCHANGED <<links, click_records, sessions>>
                 /\ response' = Submitted(raw, Reply("password_prompt", s, c, 200,
                                      "password_prompt", << >>, FALSE))
            ELSE IF check_password(url, raw)
            THEN /\ sessions' = [sessions EXCEPT ![s] = session_mark(s, c, now)]
                 /\ UNCHANGED <<links, click_records>>
                 /\ response' = Submitted(raw, Reply("password_prompt", s, c, 302, "",
                                      <<"core:redirect", c>>, FALSE))
            ELSE /\ UNCHANGED <<links, click_records, sessions>>
                 /\ response' = Submitted(raw, Reply("password_prompt", s, c, 200,
                                      "password_prompt", << >>, TRUE))
    /\ UNCHANGED <<now, reqs>>

PasswordPromptView_post(s, c, raw) ==
    /\ IF c \notin DOMAIN links
       THEN /\ UNCHANGED <<links, click_records, sessions>>
            /\ render_404("password_prompt", s, c)
       ELSE LET url == links[c] IN
            IF ~can_be_accessed(url, now)
            THEN /\ UNCHANGED <<links, click_records, sessions>>
                 /\ response' = Submitted(raw, Reply("password_prompt", s, c, 200,
                                      "link_not_available", << >>, FALSE))
            ELSE IF ~PasswordPromptForm_is_valid(raw)
            THEN /\ UNCHANGED <<links, click_records, sessions>>
                 /\ response' = Submitted(raw, Reply("password_prompt", s, c, 200,
                                      "password_prompt", << >>, FALSE))
            ELSE IF check_password(url, raw)
            THEN /\ sessions' = [sessions EXCEPT ![s] = session_mark(s, c, now)]
                 /\ UNCHANGED <<links, click_records>>
                 /\ response' = Submitted(raw, Reply("password_prompt", s, c, 302, "",
                                      <<"core:redirect", c>>, FALSE))
            ELSE /\ UNCHANGED <<links, click_records, sessions>>
                 /\ response' = Submitted(raw, Reply("password_prompt", s, c, 200,
                                      "password_prompt", << >>, TRUE))
    /\ UNCHANGED <<now, reqs>>

\* ---------------------------------------------------------- ToggleLinkView
\* (LinkToggleAPIView.post does the same.)  The owner is outside any visitor
\* session.
ToggleLinkView_post(c) ==
    /\ c \in DOMAIN links
    /\ links' = [links EXCEPT ![c].is_active = ~@]
    /\ UNCHANGED <<click_records, sessions>>
    /\ response' = Reply("toggle", "", c, 200, "", << >>, FALSE)
    /\ UNCHANGED <<now, reqs>>

\* ---------------------------------------------------------- DeleteLinkView
\* Click.url is on_delete=CASCADE: the link's Click rows go with it.
DeleteLinkView_delete(c) ==
    /\ c \in DOMAIN links
    /\ links' = [d \in DOMAIN links \ {c} |-> links[d]]
    /\ click_records' = SelectSeq(click_records, LAMBDA row : row.url # c)
    /\ UNCHANGED sessions
    /\ response' = Reply("delete", "", c, 200, "", << >>, FALSE)
    /\ UNCHANGED <<now, reqs>>

\* ---------------------------------------------------------------- LinkForm
\* EditLinkView (UpdateView) saves a LinkForm bound to the stored link.  The
\* ModelForm first copies cleaned_data onto the instance, the password as it
\* was typed; LinkForm.save then hashes a non-empty one.  The other fields
\* of the form are resubmitted as they are.
LinkForm_save(c, raw) ==
    /\ c \in DOMAIN links
    /\ LET typed    == IF raw = "" THEN << >> ELSE <<"plain", raw>>
           instance == [links[c] EXCEPT !.password = typed]
           saved    == IF raw # "" THEN set_password(instance, raw)
                       ELSE instance
       IN  links' = [links EXCEPT ![c] = saved]
    /\ UNCHANGED <<click_records, sessions>>
    /\ response' = Submitted(raw, Reply("edit", "", c, 302, "",
                                        <<"core:my_links">>, FALSE))
    /\ UNCHANGED <<now, reqs>>

Tick ==
    /\ now < MaxTime
    /\ now' = now + 1
    /\ UNCHANGED <<links, click_records, sessions, response, reqs>>

Next ==
    \/ \E s \in Sessions, c \in Codes, ip \in ClientIPs, ua \in UserAgents,
          env \in Envs : RedirectView_get(s, c, ip, ua, env)
    \/ \E s \in Sessions, c \in Codes, raw \in RawPasswords :
          PasswordPromptView_post(s, c, raw)
    \/ \E c \in Codes : ToggleLinkView_post(c)
    \/ \E c \in Codes : DeleteLinkView_delete(c)
    \/ \E c \in Codes, raw \in OwnerPasswords : LinkForm_save(c, raw)
    \/ Tick

Spec == Init /\ [][Next]_vars

\* ------------------------------------------- RedirectView.get, interleaved
\* SELECT of the link, then the checks made on the loaded instance.
get_load(r, s, c, ip, ua) ==
    /\ reqs[r].pc = "idle"
    /\ LET started == [IdleReq EXCEPT !.session = s, !.short_code = c,
                                      !.ip = ip, !.ua = ua]
           finish(status, result) ==
               [started EXCEPT !.pc = "done", !.status = status, !.result = result]
       IN  IF c \notin DOMAIN links
           THEN reqs' = [reqs EXCEPT ![r] = finish(404, "not_found")]
           ELSE LET url == links[c] IN
                IF ~can_be_accessed(url, now)
                THEN reqs' = [reqs EXCEPT ![r] = finish(200, "unavailable")]
                ELSE IF has_password(url) /\ ~session_get(s, c, now)
                THEN reqs' = [reqs EXCEPT ![r] = finish(302, "password_prompt")]
                ELSE /\ url.clicks < MaxClicks
                     /\ reqs' = [reqs EXCEPT ![r] =
                                   [started EXCEPT !.pc = "track", !.url = url]]
    /\ UNCHANGED <<links, click_records, sessions, now, response>>

\* INSERT of the Click row.
get_track(r, env) ==
    /\ reqs[r].pc = "track"
    /\ click_records' = Append(click_records,
           Click_create(reqs[r].short_code, reqs[r].ip, reqs[r].ua, env))
    /\ reqs' = [reqs EXCEPT ![r].pc = "save", ![r].did_click = TRUE]
    /\ UNCHANGED <<links, sessions, now, response>>

\* url.clicks += 1; url.save(): Model.save() writes every column of the
\* instance that was loaded, not only clicks.
get_save(r) ==
    /\ reqs[r].pc = "save"
    /\ LET url == [reqs[r].url EXCEPT !.clicks = @ + 1] IN
           links' = [links EXCEPT ![reqs[r].short_code] = url]
    /\ reqs' = [reqs EXCEPT ![r].pc = "done", ![r].did_incr = TRUE,
                            ![r].status = 302, ![r].result = "redirect"]
    /\ UNCHANGED <<click_records, sessions, now, response>>

\* url.save() raises (a database error): nothing catches it, no transaction
\* wraps the handler, the request ends as a server error.
get_save_fails(r) ==
    /\ reqs[r].pc = "save"
    /\ reqs' = [reqs EXCEPT ![r].pc = "done",
                            ![r].status = 500, ![r].result = "error"]
    /\ UNCHANGED <<links, click_records, sessions, now, response>>

ConcNext ==
    \/ \E r \in Reqs, s \in Sessions, c \in Codes,
          ip \in ClientIPs, ua \in UserAgents : get_load(r, s, c, ip, ua)
    \/ \E r \in Reqs, env \in Envs : get_track(r, env)
    \/ \E r \in Reqs : get_save(r)
    \/ \E r \in Reqs : get_save_fails(r)
    \/ \E c \in Codes : ToggleLinkView_post(c)
    \/ Tick

ConcSpec == Init /\ [][ConcNext]_vars

\* ---------------------------------------------------------------- RaceSpec
\* ConcSpec's three steps of RedirectView.get on one link without password,
\* expiry or quota, with workers that take a next request when they have
\* answered one.
get_release(r) ==
    /\ reqs[r].pc = "done"
    /\ reqs' = [reqs EXCEPT ![r] = IdleReq]
    /\ UNCHANGED <<links, click_records, sessions, now, response>>

RaceInit ==
    /\ links = [c \in Stored |->
                  [original_url |-> Destination, clicks |-> 0,
                   is_active |-> TRUE, expires_at |-> None,
                   max_clicks |-> None, password |-> << >>]]
    /\ click_records = << >>
    /\ sessions = [s \in Sessions |-> NewSession]
    /\ now = 0
    /\ response = NoResponse
    /\ reqs = [r \in Reqs |-> IdleReq]

RaceNext ==
    \/ \E r \in Reqs, c \in Stored, ip \in ClientIPs, ua \in UserAgents :
          get_load(r, "s1", c, ip, ua)
    \/ \E r \in Reqs, env \in Envs : get_track(r, env)
    \/ \E r \in Reqs : get_save(r)
    \/ \E r \in Reqs : get_release(r)

RaceSpec == RaceInit /\ [][RaceNext]_vars

\* ------------------------------------------- two password-protected links
\* Two stored links, both active and without expiry, each behind a password
\* and with a quota of one click; visitors of two sessions request and
\* unlock them.
ScopeInit ==
    /\ links = [c \in ScopeCodes |->
                  [original_url |-> Destination, clicks |-> 0,
                   is_active |-> TRUE, expires_at |-> None,
                   max_clicks |-> 1, password |-> make_password("secret")]]
    /\ click_records = << >>
    /\ sessions = [s \in Sessions |-> NewSession]
    /\ now = 0
    /\ response = NoResponse
    /\ reqs = [r \in Reqs |-> IdleReq]

ScopeNext ==
    \/ \E s \in Sessions, c \in ScopeCodes, ip \in ClientIPs, ua \in UserAgents,
          env \in Envs : RedirectView_get(s, c, ip, ua, env)
    \/ \E s \in Sessions, c \in ScopeCodes, raw \in RawPasswords :
          PasswordPromptView_post(s, c, raw)
    \/ Tick

ScopeSpec == ScopeInit /\ [][ScopeNext]_vars

\* ------------------------------------------------------------- ClickAdmin
\* The admin change form of a Click (ip_address and user_agent are editable
\* and required); ModelAdmin.save_model calls obj.save() on the loaded row.
ClickAdmin_change(i, ip, ua, env) ==
    /\ i \in 1..Len(click_records)
    /\ LET obj == [pk |-> i] @@ [click_records[i] EXCEPT !.ip_address = ip,
                                                         !.user_agent = ua]
       IN  click_records' = [click_records EXCEPT
                                ![i] = Columns(Click_save(obj, env))]
    /\ UNCHANGED <<links, sessions>>
    /\ response' = Reply("click_admin", "", click_records[i].url, 302, "",
                         <<"admin:core_click_changelist">>, FALSE)
    /\ UNCHANGED <<now, reqs>>

\* --------------------------------------------------------------- ClickSpec
\* Click recording on its own: one link without password or expiry, requests
\* with and without a User-Agent header, from a local and a public address,
\* in deployments that differ in what the parser package and the two
\* providers do.
ClickUserAgents ==
    {"", "Mozilla/5.0 (iPhone; CPU iPhone OS 17_0 like Mac OS X) Safari/604.1"}
AdminUserAgents == ClickUserAgents \ {""}
ClickIPs == {"127.0.0.1", "8.8.8.8"}

MobileSafari ==
    [kind |-> "parsed", is_mobile |-> TRUE, is_tablet |-> FALSE, is_pc |-> FALSE,
     browser |-> [family |-> "Mobile Safari", version_string |-> "17.0"],
     os |-> [family |-> "iOS", version_string |-> "17.0"]]

ClickEnvs ==
    { [ua_lib |-> MobileSafari,
       primary |-> Http(200, Dict([country_name |-> JStr("Germany"),
                                   city |-> JStr("Berlin")])),
       secondary |-> Raise],
      [ua_lib |-> [kind |-> "missing"],
       primary |-> Raise,
       secondary |-> Http(200, Dict([status |-> JStr("success"),
                                     country |-> JStr("France"),
                                     city |-> JStr("Paris")]))],
      [ua_lib |-> [kind |-> "raises"],
       primary |-> Http(429, Malformed),
       secondary |-> Raise],
      OfflineEnv }

ClickInit ==
    /\ links = [c \in Stored |->
                  [original_url |-> Destination, clicks |-> 0,
                   is_active |-> TRUE, expires_at |-> None,
                   max_clicks |-> MaxRows, password |-> << >>]]
    /\ click_records = << >>
    /\ sessions = [s \in Sessions |-> NewSession]
    /\ now = 0
    /\ response = NoResponse
    /\ reqs = [r \in Reqs |-> IdleReq]

ClickNext ==
    \/ \E s \in Sessions, c \in Stored, ip \in ClickIPs, ua \in ClickUserAgents,
          env \in ClickEnvs : RedirectView_get(s, c, ip, ua, env)
    \/ \E i \in 1..MaxRows, ip \in ClickIPs, ua \in AdminUserAgents,
          env \in ClickEnvs : ClickAdmin_change(i, ip, ua, env)

ClickSpec == ClickInit /\ [][ClickNext]_vars

\* ---------------------------------------------------------------- UtilSpec
\* The functions of core/utils.py called on their own, once per behaviour,
\* for every address and every behaviour of the two providers listed here.
GeoIPs == {"", "127.0.0.1", "::1", "localhost", "8.8.8.8"}

Ten == "abcdefghij"
LongName == Ten \o Ten \o Ten \o Ten \o Ten \o Ten \o Ten \o Ten \o Ten \o Ten \o Ten

PrimaryResponses ==
    { Raise, Timeout,
      Http(429, Malformed),
      Http(200, Malformed),
      Http(200, Dict([country_name |-> JStr("Germany"), city |-> JStr("Berlin")])),
      Http(200, Dict([country_name |-> JStr(LongName), city |-> JNull])),
      Http(200, Dict([country_name |-> JStr(""), city |-> JStr("Berlin")])),
      Http(200, Dict([country_name |-> JNum, city |-> JStr("Berlin")])),
      Http(200, Dict([error |-> JStr("RateLimited")])) }

SecondaryResponses ==
    { Raise, Timeout,
      Http(500, Malformed),
      Http(200, Malformed),
      Http(200, Dict([status |-> JStr("success"),
                      country |-> JStr("France"), city |-> JStr("Paris")])),
      Http(200, Dict([status |-> JStr("success"),
                      country |-> JStr(LongName), city |-> JStr("")])),
      Http(200, Dict([status |-> JStr("success"),
                      country |-> JNum, city |-> JStr("Paris")])),
      Http(200, Dict([status |-> JStr("fail"),
                      country |-> JStr("France"), city |-> JStr("Paris")])),
      Http(429, Dict([status |-> JStr("success"),
                      country |-> JStr("France"), city |-> JStr("Paris")])) }

GeoEnvs == [ua_lib : {[kind |-> "missing"]},
            primary : PrimaryResponses, secondary : SecondaryResponses]

\* get_location_from_ip(ip) called in deployment env; response keeps the
\* arguments and what came back.
Call_get_location_from_ip(ip, env) ==
    /\ response = NoResponse
    /\ response' = [view |-> "get_location_from_ip", ip_address |-> ip,
                    env |-> env, result |-> get_location_from_ip(ip, env)]
    /\ UNCHANGED <<links, click_records, sessions, now, reqs>>

\* User-agent strings are put together from the words the fallback parser
\* looks for, spelled as browsers spell them.
Tokens == <<"Mobile", "Android", "iPhone", "iPod", "iPad", "Tablet",
            "Chrome", "Edge", "Firefox", "Safari", "Opera", "OPR", "MSIE",
            "Trident", "Windows", "Macintosh", "Mac OS", "Linux", "iOS">>
KeywordOf == <<"mobile", "android", "iphone", "ipod", "ipad", "tablet",
               "chrome", "edge", "firefox", "safari", "opera", "opr", "msie",
               "trident", "windows", "macintosh", "mac os", "linux", "ios">>

KeywordSets == {K \in SUBSET (1..Len(Tokens)) : Cardinality(K) <= MaxKeywords}

RECURSIVE JoinTokens(_, _)
JoinTokens(K, i) ==
    IF i > Len(Tokens) THEN ""
    ELSE (IF i \in K THEN Tokens[i] \o "; " ELSE "") \o JoinTokens(K, i + 1)

UAString(K) == "Mozilla/5.0 (" \o JoinTokens(K, 1) \o "U) Gecko/2010"

\* parse_user_agent_fallback(ua) for the string made of the words K;
\* response keeps the string, the keywords it was made of, and the result.
Call_parse_user_agent_fallback(K) ==
    /\ response = NoResponse
    /\ response' = [view |-> "parse_user_agent_fallback",
                    user_agent |-> UAString(K),
                    keywords |-> {KeywordOf[i] : i \in K},
                    result |-> parse_user_agent_fallback(UAString(K))]
    /\ UNCHANGED <<links, click_records, sessions, now, reqs>>

UtilNext ==
    \/ \E ip \in GeoIPs, env \in GeoEnvs : Call_get_location_from_ip(ip, env)
    \/ \E K \in KeywordSets : Call_parse_user_agent_fallback(K)

UtilSpec == ClickInit /\ [][UtilNext]_vars

\* ----------------------------------------------------------------- EnvSpec
\* Redirects of one link without password, in every deployment that combines
\* a behaviour of the parser package (not installed, raising, parsing) with a
\* behaviour of each provider (exception, timeout, status other than 200,
\* unparsable body, answer).
ParserBehaviours == {[kind |-> "missing"], [kind |-> "raises"], MobileSafari}
PrimaryBehaviours ==
    { Raise, Timeout, Http(429, Malformed), Http(200, Malformed),
      Http(200, Dict([country_name |-> JStr("Germany"), city |-> JStr("Berlin")])) }
SecondaryBehaviours ==
    { Raise, Timeout, Http(500, Malformed), Http(200, Malformed),
      Http(200, Dict([status |-> JStr("success"),
                      country |-> JStr("France"), city |-> JStr("Paris")])) }
AllEnvs == [ua_lib : ParserBehaviours,
            primary : PrimaryBehaviours, secondary : SecondaryBehaviours]

EnvInit ==
    /\ links = [c \in Stored |->
                  [original_url |-> Destination, clicks |-> 0,
                   is_active |-> TRUE, expires_at |-> None,
                   max_clicks |-> 1, password |-> << >>]]
    /\ click_records = << >>
    /\ sessions = [s \in Sessions |-> NewSession]
    /\ now = 0
    /\ response = NoResponse
    /\ reqs = [r \in Reqs |-> IdleReq]

EnvNext ==
    \/ \E s \in Sessions, c \in Stored, ip \in ClickIPs, ua \in ClickUserAgents,
          env \in AllEnvs : RedirectView_get(s, c, ip, ua, env)

EnvSpec == EnvInit /\ [][EnvNext]_vars

\* -------------------------------------------------------------- CreateSpec
\* The three views that insert a ShortenedURL.
StartsWith(str, prefix) ==
    Len(str) >= Len(prefix) /\ SubSeq(str, 1, Len(prefix)) = prefix

\* str.find(ch) + 1, searching from position i: 0 when ch does not occur.
RECURSIVE Find(_, _, _)
Find(str, ch, i) ==
    IF i > Len(str) THEN 0
    ELSE IF SubSeq(str, i, i) = ch THEN i
    ELSE Find(str, ch, i + 1)

\* urlsplit(value).scheme, lower-cased; '' when there is none.
SchemeOf(value) ==
    LET i == Find(value, ":", 1)
    IN  IF i <= 1 THEN "" ELSE lower(SubSeq(value, 1, i - 1))

\* forms.URLField.to_python: a value without scheme gets the assumed one
\* ("http" up to Django 5, "https" from Django 6).
URLField_to_python(value, assume_scheme) ==
    IF SchemeOf(value) = "" THEN assume_scheme \o "://" \o value ELSE value

\* URLValidator: one of its four schemes, then ://, then a host.
URLValidator(value) ==
    /\ SchemeOf(value) \in {"http", "https", "ftp", "ftps"}
    /\ LET rest == SubSeq(value, Len(SchemeOf(value)) + 1, Len(value))
       IN  StartsWith(rest, "://") /\ Len(rest) > 3

\* LinkForm.clean_original_url: TRUE when no ValidationError is raised.
clean_original_url(url) ==
    StartsWith(url, "http://") \/ StartsWith(url, "https://")

\* str.strip('/')
RECURSIVE strip_slash(_)
strip_slash(str) ==
    IF Len(str) = 0 THEN ""
    ELSE IF SubSeq(str, 1, 1) = "/" THEN strip_slash(SubSeq(str, 2, Len(str)))
    ELSE IF SubSeq(str, Len(str), Len(str)) = "/"
    THEN strip_slash(SubSeq(str, 1, Len(str) - 1))
    ELSE str

\* urllib.parse.urlparse(url).path for a url that starts with http(s)://
urlparse_path(url) ==
    LET rest == SubSeq(url, Find(url, ":", 1) + 3, Len(url))
        i == Find(rest, "/", 1)
    IN  IF i = 0 THEN "" ELSE SubSeq(rest, i, Len(rest))

\* ShortenedURL.objects.create(original_url=..., user=...): the other
\* columns take their defaults.
ShortenedURL_create(original_url, user) ==
    [original_url |-> original_url, clicks |-> 0, is_active |-> TRUE,
     expires_at |-> None, max_clicks |-> None, password |-> << >>,
     user |-> user]

Owner == "owner"
Anonymous == ""
UrlInputs == {"", "https://example.com/page", "http://example.com",
              "example.com", "ftp://example.com/file", "javascript:alert(1)"}
QRInputs == UrlInputs \cup {"https://lnk.fn/abc123/", "WIFI:S:home;;"}
AssumeSchemes == {"http", "https"}

\* CreateLinkView.post: a LinkForm with only original_url filled in; code is
\* what generate_short_code returns.
CreateLinkView_post(code, value, assume_scheme) ==
    /\ code \notin DOMAIN links
    /\ UNCHANGED <<click_records, sessions, now, reqs>>
    /\ LET url == URLField_to_python(value, assume_scheme)
       IN  IF value # "" /\ URLValidator(url) /\ clean_original_url(url)
           THEN /\ links' = (code :> ShortenedURL_create(url, Owner)) @@ links
                /\ response' = Reply("create_link", "", code, 302, "",
                                     <<"core:my_links">>, FALSE)
           ELSE /\ UNCHANGED links
                /\ response' = Reply("create_link", "", code, 200,
                                     "create_link", << >>, TRUE)

\* ShortenURLView.post with body {"url": value}, from user (Anonymous when
\* not logged in).
ShortenURLView_post(code, value, user) ==
    /\ code \notin DOMAIN links
    /\ UNCHANGED <<click_records, sessions, now, reqs>>
    /\ IF value = ""
       THEN /\ UNCHANGED links
            /\ response' = Reply("shorten", "", code, 400, "", << >>, TRUE)
       ELSE /\ links' = (code :> ShortenedURL_create(value, user)) @@ links
            /\ response' = Reply("shorten", "", code, 200, "", << >>, FALSE)

\* QRCodesView.post: qr_content names one of the owner's links by its path,
\* or a ShortenedURL is created for it.
QRCodesView_post(code, qr_content) ==
    /\ code \notin DOMAIN links
    /\ UNCHANGED <<click_records, sessions, now, reqs>>
    /\ IF qr_content = ""
       THEN /\ UNCHANGED links
            /\ response' = Reply("qr_codes", "", code, 200, "qr_codes", << >>, TRUE)
       ELSE LET is_url == StartsWith(qr_content, "http://")
                          \/ StartsWith(qr_content, "https://")
                short_code == IF is_url THEN strip_slash(urlparse_path(qr_content))
                              ELSE ""
                found == /\ short_code # ""
                         /\ short_code \in DOMAIN links
                         /\ links[short_code].user = Owner
            IN  IF found
                THEN /\ UNCHANGED links
                     /\ response' = Reply("qr_codes", "", short_code, 302, "",
                                          <<"core:qr_codes">>, FALSE)
                ELSE /\ links' = (code :> ShortenedURL_create(
                                     IF is_url THEN qr_content
                                     ELSE "https://" \o qr_content, Owner)) @@ links
                     /\ response' = Reply("qr_codes", "", code, 302, "",
                                          <<"core:qr_codes">>, FALSE)

CreateInit ==
    /\ links = [c \in {} |-> NoRow]
    /\ click_records = << >>
    /\ sessions = [s \in Sessions |-> NewSession]
    /\ now = 0
    /\ response = NoResponse
    /\ reqs = [r \in Reqs |-> IdleReq]

CreateNext ==
    \/ \E code \in ScopeCodes, value \in UrlInputs, assume \in AssumeSchemes :
          CreateLinkView_post(code, value, assume)
    \/ \E code \in ScopeCodes, value \in UrlInputs, user \in {Owner, Anonymous} :
          ShortenURLView_post(code, value, user)
    \/ \E code \in ScopeCodes, qr_content \in QRInputs :
          QRCodesView_post(code, qr_content)

CreateSpec == CreateInit /\ [][CreateNext]_vars

\* ------------------------------------------------------------ BackfillSpec
\* The management command populate_analytics, run over Click rows that
\* redirects inserted and the admin edited.
DerivedFields == {"device_type", "browser", "operating_system", "country", "city"}

\* The admin change form of a Click submitted with one derived field
\* emptied (all five are editable and blank=True); obj.save() follows.
ClickAdmin_clear(i, field, env) ==
    /\ i \in 1..Len(click_records)
    /\ click_records[i][field] # ""
    /\ LET obj == [pk |-> i] @@ [click_records[i] EXCEPT ![field] = ""]
       IN  click_records' = [click_records EXCEPT
                                ![i] = Columns(Click_save(obj, env))]
    /\ UNCHANGED <<links, sessions>>
    /\ response' = Reply("click_admin", "", click_records[i].url, 302, "",
                         <<"admin:core_click_changelist">>, FALSE)
    /\ UNCHANGED <<now, reqs>>

\* The filter of the run without --force.
NeedsAnalytics(click) ==
    click.device_type = "" \/ click.browser = "" \/ click.country = ""

\* One pass of the for loop: what Click.objects.filter(pk=...).update(...)
\* leaves in the row.
backfill_click(click, force, env) ==
    LET ua_data == parse_user_agent(click.user_agent, env)
        location_data == get_location_from_ip(click.ip_address, env)
        parsed == IF click.user_agent # "" /\ (force \/ click.device_type = "")
                  THEN [click EXCEPT !.device_type = ua_data.device_type,
                                     !.browser = ua_data.browser,
                                     !.operating_system = ua_data.operating_system]
                  ELSE click
    IN  IF parsed.ip_address # "" /\ (force \/ parsed.country = "")
        THEN IF parsed.ip_address \notin {"127.0.0.1", "::1"}
             THEN [parsed EXCEPT !.country = location_data.country,
                                 !.city = location_data.city]
             ELSE [parsed EXCEPT !.country = "Local", !.city = "Local"]
        ELSE parsed

\* The rows the command processes: the queryset (newest first), cut to
\* --limit when one is given.
Processed(force, limit) ==
    LET selected == {i \in 1..Len(click_records) :
                        force \/ NeedsAnalytics(click_records[i])}
    IN  IF limit = None \/ limit = 0 THEN selected
        ELSE {i \in selected :
                 Cardinality({j \in selected : j > i}) < limit}

\* Command.handle; response keeps the options and the table as it was.
populate_analytics_handle(force, limit, env) ==
    /\ click_records' =
           [i \in 1..Len(click_records) |->
               IF i \in Processed(force, limit)
               THEN backfill_click(click_records[i], force, env)
               ELSE click_records[i]]
    /\ UNCHANGED <<links, sessions>>
    /\ response' = [force |-> force, limit |-> limit, before |-> click_records]
                   @@ Reply("populate_analytics", "", "", 0, "", << >>, FALSE)
    /\ UNCHANGED <<now, reqs>>

BackfillNext ==
    \/ \E c \in Stored, ip \in ClickIPs, ua \in ClickUserAgents,
          env \in ClickEnvs : RedirectView_get("s1", c, ip, ua, env)
    \/ \E i \in 1..MaxRows, field \in DerivedFields, env \in ClickEnvs :
          ClickAdmin_clear(i, field, env)
    \/ \E force \in BOOLEAN, limit \in {None, 1}, env \in ClickEnvs :
          populate_analytics_handle(force, limit, env)

BackfillSpec == EnvInit /\ [][BackfillNext]_vars

\* ================================================================== claims
\* The link the last response was about, as the handler found it.
AboutStoredLink == response.short_code \in DOMAIN links

PreLink == [links[response.short_code] EXCEPT !.clicks = @ - response.d_clicks]

GetAnswered  == response.view = "redirect" /\ AboutStoredLink
PostAnswered == response.view = "password_prompt" /\ AboutStoredLink

Unavailable == response.status = 200 /\ response.template = "link_not_available"
RedirectedToDestination ==
    /\ response.status = 302
    /\ response.location = <<"url", links[response.short_code].original_url>>
RedirectedToPrompt ==
    /\ response.status = 302
    /\ response.location = <<"core:password_prompt", response.short_code>>

\* The session store holds an unexpired verification of short code c for s.
VerifiedAt(s, c, t) ==
    /\ c \in sessions[s].verified
    /\ sessions[s].expire_date # None
    /\ t < sessions[s].expire_date

AllSettled == \A r \in Reqs : reqs[r].pc \in {"idle", "done"}
Redirected(c) == {r \in Reqs : /\ reqs[r].pc = "done"
                              /\ reqs[r].short_code = c
                              /\ reqs[r].result = "redirect"}

\* C1: when N allowed redirects of one link have run concurrently and all have
\* finished (none of them failed), clicks has grown by exactly N (from the 0
\* of a new link) and exactly N Click rows exist for the link.
C1_ConcurrentRedirectsCountExactly ==
    \A c \in DOMAIN links :
        (AllSettled /\ \A r \in Reqs : reqs[r].result # "error")
            => /\ links[c].clicks = Cardinality(Redirected(c))
               /\ Cardinality(RowsOf(c)) = Cardinality(Redirected(c))

\* C2: a finished request has inserted a Click row if and only if it has
\* incremented the counter, also when the write of the counter fails.
C2_ClickIffIncrement ==
    \A r \in Reqs :
        reqs[r].pc = "done" => (reqs[r].did_click <=> reqs[r].did_incr)

\* C3: a GET that resolves to Denied renders the unavailable page, creates no
\* Click row and leaves the link, its counter included, as it was.
C3_DeniedChangesNothing ==
    (GetAnswered /\ ~can_be_accessed(PreLink, response.at))
        => /\ Unavailable
           /\ response.d_rows = 0
           /\ response.d_clicks = 0
           /\ ~response.links_changed

C3_Witness ==
    /\ GetAnswered
    /\ Unavailable
    /\ links[response.short_code].clicks > 0
    /\ RowsOf(response.short_code) # {}

\* C4: one GET on an active link without expiry, quota or password adds
\* exactly 1 to clicks, inserts exactly one Click row, which belongs to the
\* link, and redirects to original_url.
C4_PlainLinkRedirects ==
    (/\ GetAnswered
     /\ PreLink.is_active
     /\ PreLink.expires_at = None
     /\ PreLink.max_clicks = None
     /\ PreLink.password = << >>)
        => /\ RedirectedToDestination
           /\ response.d_clicks = 1
           /\ response.d_rows = 1
           /\ click_records[Len(click_records)].url = response.short_code

C4_Witness ==
    /\ GetAnswered
    /\ RedirectedToDestination
    /\ PreLink.clicks = 0
    /\ PreLink.max_clicks = None /\ PreLink.expires_at = None
    /\ PreLink.password = << >>
    /\ links[response.short_code].clicks = 1
    /\ Cardinality(RowsOf(response.short_code)) = 1

\* C5: with a quota of N >= 1 on an active, unexpired link without password
\* that started at clicks = 0, a GET is allowed exactly while clicks < N (the
\* N-th allowed GET brings clicks to N); from then on every GET is Denied and
\* clicks stays at N.
C5_QuotaAllowsExactlyN ==
    (/\ GetAnswered
     /\ PreLink.max_clicks # None /\ PreLink.max_clicks >= 1
     /\ PreLink.is_active
     /\ ~(PreLink.expires_at # None /\ response.at > PreLink.expires_at)
     /\ PreLink.password = << >>)
        => /\ PreLink.clicks <= PreLink.max_clicks
           /\ PreLink.clicks < PreLink.max_clicks
                => /\ RedirectedToDestination
                   /\ response.d_clicks = 1
                   /\ links[response.short_code].clicks <= PreLink.max_clicks
           /\ PreLink.clicks >= PreLink.max_clicks
                => /\ Unavailable
                   /\ response.d_clicks = 0
                   /\ links[response.short_code].clicks = PreLink.max_clicks

C5_Witness ==
    /\ GetAnswered
    /\ Unavailable
    /\ links[response.short_code].is_active
    /\ links[response.short_code].expires_at = None
    /\ links[response.short_code].password = << >>
    /\ links[response.short_code].max_clicks = 2
    /\ links[response.short_code].clicks = 2
    /\ Cardinality(RowsOf(response.short_code)) = 2

\* C6: a link whose max_clicks is set (0 included) and whose clicks has
\* reached max_clicks is Denied: a GET or a password POST renders the
\* unavailable page.
C6_QuotaSetAndReachedIsDenied ==
    (/\ GetAnswered \/ PostAnswered
     /\ PreLink.max_clicks # None
     /\ PreLink.clicks >= PreLink.max_clicks)
        => /\ ~can_be_accessed(PreLink, response.at)
           /\ Unavailable

\* C7: an inactive link is Denied whatever its other fields and whatever the
\* session: a GET or a password POST renders the unavailable page and
\* changes nothing.
C7_InactiveIsDenied ==
    ((GetAnswered \/ PostAnswered) /\ ~PreLink.is_active)
        => /\ Unavailable
           /\ response.d_rows = 0
           /\ response.d_clicks = 0
           /\ ~response.sessions_changed

C7_Witness ==
    /\ GetAnswered
    /\ Unavailable
    /\ ~links[response.short_code].is_active
    /\ links[response.short_code].password # << >>
    /\ VerifiedAt(response.session, response.short_code, response.at)
    /\ ~is_expired(links[response.short_code], response.at)

\* C8: a link is expired exactly when expires_at is set and now > expires_at;
\* an expired link is Denied even if active and within quota, and expiry
\* denies nothing at now = expires_at or without an expires_at.
C8_ExpiredExactlyAfterExpiresAt ==
    /\ \A c \in DOMAIN links :
          is_expired(links[c], now)
              <=> (links[c].expires_at # None /\ now > links[c].expires_at)
    /\ (GetAnswered \/ PostAnswered) =>
          /\ (PreLink.expires_at # None /\ response.at > PreLink.expires_at)
                => Unavailable
          /\ (/\ PreLink.expires_at = None \/ response.at <= PreLink.expires_at
              /\ PreLink.is_active
              /\ PreLink.max_clicks = None \/ PreLink.clicks < PreLink.max_clicks)
                => ~Unavailable

C8_Witness ==
    /\ GetAnswered
    /\ Unavailable
    /\ links[response.short_code].is_active
    /\ links[response.short_code].max_clicks = None
    /\ links[response.short_code].expires_at # None
    /\ response.at = links[response.short_code].expires_at + 1

\* C9: for a short code without a row, GET /<code> and POST /password/<code>/
\* answer 404, create no Click row, change no link and mark nothing in the
\* session.
C9_MissingCodeIsNotFound ==
    (/\ response.view \in {"redirect", "password_prompt"}
     /\ ~AboutStoredLink)
        => /\ response.status = 404
           /\ response.d_rows = 0
           /\ ~response.links_changed
           /\ ~response.sessions_changed

C9_Witness ==
    /\ response.view = "password_prompt"
    /\ response.short_code \in Stored \ DOMAIN links
    /\ response.status = 404
    /\ \E s \in Sessions : sessions[s].verified # {}

\* C10: a GET on an accessible link with a password, from a session that has
\* not verified this short code, is redirected to the password prompt of the
\* short code; it inserts no Click row and does not increment clicks.
C10_UnverifiedGoesToPrompt ==
    (/\ GetAnswered
     /\ can_be_accessed(PreLink, response.at)
     /\ PreLink.password # << >>
     /\ ~VerifiedAt(response.session, response.short_code, response.at))
        => /\ RedirectedToPrompt
           /\ response.d_rows = 0
           /\ response.d_clicks = 0

C10_Witness ==
    /\ GetAnswered
    /\ RedirectedToPrompt
    /\ links[response.short_code].clicks > 0
    /\ \E s \in Sessions \ {response.session} :
           VerifiedAt(s, response.short_code, response.at)

\* The access policy as the handlers apply it: inactive, or past expires_at,
\* or a quota of at least 1 that clicks has reached.
DeniedAt(url, t) ==
    \/ ~url.is_active
    \/ url.expires_at # None /\ t > url.expires_at
    \/ url.max_clicks # None /\ url.max_clicks >= 1
          /\ url.clicks >= url.max_clicks

\* The stored password is the hash of raw.
Matches(url, raw) == url.password = <<"pbkdf2_sha256", raw>>

RedirectedBackToCode ==
    /\ response.status = 302
    /\ response.location = <<"core:redirect", response.short_code>>

C12_EmptyPasswordAcceptsAnything ==
    /\ \A c \in DOMAIN links :
          links[c].password = << >>
              => /\ \A raw \in RawPasswords : check_password(links[c], raw)
                 /\ ~has_password(links[c])
    /\ (GetAnswered /\ PreLink.password = << >>) => ~RedirectedToPrompt
    /\ (/\ PostAnswered
        /\ PreLink.password = << >>
        /\ ~DeniedAt(PreLink, response.at)
        /\ response.submitted # "") => RedirectedBackToCode

C12_Witness ==
    /\ PostAnswered
    /\ links[response.short_code].password = << >>
    /\ response.submitted = "wrong"
    /\ RedirectedBackToCode

\* C13: after the password was set to a non-empty p, check_password(p) is
\* true and check_password(q) is false for every other non-empty q; setting
\* an empty password clears it and the link is unprotected.
C13_SetPasswordThenCheck ==
    (response.view = "edit" /\ AboutStoredLink) =>
        LET url == links[response.short_code]
            p   == response.submitted
        IN  /\ p # "" =>
                  /\ url.password # << >>
                  /\ has_password(url)
                  /\ check_password(url, p)
                  /\ \A q \in RawPasswords \ {"", p} : ~check_password(url, q)
            /\ p = "" =>
                  /\ url.password = << >>
                  /\ ~has_password(url)

C13_Witness ==
    /\ response.view = "edit"
    /\ AboutStoredLink
    /\ response.submitted = "secret"
    /\ links[response.short_code].password # << >>
    /\ links[response.short_code].clicks > 0

\* C14: GET (sent to the prompt), POST of the correct password (session
\* marked for the code, sent back to /<code>), GET: the third request is
\* allowed, inserts one Click, adds 1 to clicks and redirects to
\* original_url; the first two add nothing, so clicks grows by exactly 1.
C14_PromptVerifyThenAllowed ==
    /\ (GetAnswered /\ RedirectedToPrompt)
          => response.d_clicks = 0 /\ response.d_rows = 0
    /\ (/\ PostAnswered
        /\ response.follows = "prompted"
        /\ Matches(PreLink, response.submitted)
        /\ ~DeniedAt(PreLink, response.at))
          => /\ RedirectedBackToCode
             /\ VerifiedAt(response.session, response.short_code, response.at)
             /\ response.d_clicks = 0 /\ response.d_rows = 0
    /\ (/\ GetAnswered
        /\ response.follows = "verified_after_prompt"
        /\ ~DeniedAt(PreLink, response.at)
        /\ response.at < sessions[response.session].expire_date)
          => /\ RedirectedToDestination
             /\ response.d_clicks = 1 /\ response.d_rows = 1

C14_Witness ==
    /\ GetAnswered
    /\ response.follows = "verified_after_prompt"
    /\ RedirectedToDestination
    /\ links[response.short_code].password # << >>
    /\ links[response.short_code].clicks = 1
    /\ Cardinality(RowsOf(response.short_code)) = 1

C16_WrongPasswordChangesNothing ==
    /\ (/\ PostAnswered
        /\ ~DeniedAt(PreLink, response.at)
        /\ PreLink.password # << >>
        /\ response.submitted # ""
        /\ ~Matches(PreLink, response.submitted))
          => /\ response.status = 200
             /\ response.template = "password_prompt"
             /\ response.error_message
             /\ ~response.sessions_changed
             /\ ~response.links_changed
             /\ response.d_clicks = 0 /\ response.d_rows = 0
    /\ (/\ PostAnswered
        /\ ~DeniedAt(PreLink, response.at)
        /\ Matches(PreLink, response.submitted))
          => /\ RedirectedBackToCode
             /\ VerifiedAt(response.session, response.short_code, response.at)

C16_Witness ==
    /\ PostAnswered
    /\ response.follows = "wrong_again"
    /\ Matches(links[response.short_code], response.submitted)
    /\ RedirectedBackToCode
    /\ VerifiedAt(response.session, response.short_code, response.at)

\* C17: verification belongs to one session and one short code: a GET on a
\* password-protected link from a session that did not itself verify that
\* short code is sent to the prompt, whatever other short codes the session
\* has verified and whatever other sessions have verified.
C17_VerificationIsPerSessionAndCode ==
    (/\ GetAnswered
     /\ PreLink.password # << >>
     /\ ~DeniedAt(PreLink, response.at)
     /\ sessions[response.session].marked_at[response.short_code] = None)
        => /\ RedirectedToPrompt
           /\ response.d_rows = 0
           /\ response.d_clicks = 0

C17_Witness ==
    /\ GetAnswered
    /\ RedirectedToPrompt
    /\ sessions[response.session].marked_at[response.short_code] = None
    /\ \E c \in ScopeCodes \ {response.short_code} :
           VerifiedAt(response.session, c, response.at)
    /\ \E s \in Sessions \ {response.session} :
           VerifiedAt(s, response.short_code, response.at)

\* C18: a short code stays verified for one hour counted from its own
\* verification: a GET more than SESSION_EXPIRY after the session last
\* verified the short code is sent to the prompt, whatever the session did
\* in between.
C18_WindowCountsFromOwnVerification ==
    (/\ GetAnswered
     /\ PreLink.password # << >>
     /\ ~DeniedAt(PreLink, response.at)
     /\ sessions[response.session].marked_at[response.short_code] # None
     /\ response.at > sessions[response.session].marked_at[response.short_code]
                          + SESSION_EXPIRY)
        => RedirectedToPrompt

\* ---------------------------------------------------------------- C19, C20
DerivedOf(row) == <<row.device_type, row.browser, row.operating_system,
                    row.country, row.city>>

\* What the enrichment would store for the row's present raw fields in
\* deployment env.
EnrichedNow(row, env) ==
    DerivedOf(populate_analytics_data(
                  Click(row.url, row.ip_address, row.user_agent), env))

\* C19: a step never changes the five derived fields (device_type, browser,
\* operating_system, country, city) of a Click row that already exists; in
\* particular the save() of an existing Click whose ip_address or user_agent
\* was edited leaves them as the insert wrote them.
C19_ResaveKeepsDerivedFields ==
    [][\A i \in 1..Len(click_records) :
          i <= Len(click_records')
              => DerivedOf(click_records'[i]) = DerivedOf(click_records[i])]_vars

\* An existing Click was saved again after its address was changed from a
\* local to a public one, and its country and city still say Local, which no
\* deployment would compute for the new address.
C19_Witness ==
    /\ response.view = "click_admin"
    /\ \E i \in 1..Len(click_records) :
          /\ click_records[i].ip_address \notin LocalIPs
          /\ click_records[i].country = "Local"
          /\ click_records[i].city = "Local"
          /\ \A env \in ClickEnvs :
                EnrichedNow(click_records[i], env) # DerivedOf(click_records[i])

\* C20: the Click row that an allowed redirect has just inserted has all five
\* derived fields filled (none is the empty string), and when the request had
\* no User-Agent its device_type, browser and operating_system are "Unknown".
C20_AllowedRedirectFillsDerivedFields ==
    (GetAnswered /\ RedirectedToDestination /\ response.d_rows = 1)
        => LET row == click_records[Len(click_records)]
           IN  /\ \A k \in 1..5 : DerivedOf(row)[k] # ""
               /\ row.user_agent = ""
                      => /\ row.device_type = "Unknown"
                         /\ row.browser = "Unknown"
                         /\ row.operating_system = "Unknown"

\* ----------------------------------------------------------- C21, C22, C23
Located == response.view = "get_location_from_ip"

Loopback == {"127.0.0.1", "::1", "localhost"}
NonLocal == Located /\ response.ip_address # ""
                    /\ response.ip_address \notin Loopback

Unknowns == response.result.country = "Unknown"
            /\ response.result.city = "Unknown"

\* The primary provider failed: no answer, a status other than 200, or a 200
\* whose body is not JSON.
PrimaryFailed(env) ==
    \/ env.primary.kind = "raise"
    \/ env.primary.status_code # 200
    \/ env.primary.json.kind = "malformed"

\* The secondary provider answered 200 with status = "success".
SecondaryOK(env) ==
    /\ env.secondary.kind = "response"
    /\ env.secondary.status_code = 200
    /\ env.secondary.json.kind = "dict"
    /\ "status" \in DOMAIN env.secondary.json.data
    /\ env.secondary.json.data.status = JStr("success")

\* C21: for the empty address and for 127.0.0.1, ::1 and localhost,
\* get_location_from_ip returns Local / Local and sends no request to either
\* provider.
C21_LocalAddressNoRequest ==
    (Located /\ (response.ip_address = "" \/ response.ip_address \in Loopback))
        => /\ response.result.country = "Local"
           /\ response.result.city = "Local"
           /\ response.result.calls = << >>

\* localhost was looked up in a deployment whose primary provider would have
\* answered, and no request was sent.
C21_Witness ==
    /\ Located
    /\ response.ip_address = "localhost"
    /\ response.env.primary.kind = "response"
    /\ response.env.primary.status_code = 200
    /\ response.result.country = "Local"
    /\ response.result.calls = << >>

\* C22: for a non-local address, whenever the primary provider failed the
\* secondary provider was sent a request (after the primary), and the
\* secondary is sent a request only after a failed primary.
C22_PrimaryFailureTriesSecondary ==
    NonLocal
        => /\ PrimaryFailed(response.env)
                  => response.result.calls = <<"ipapi.co", "ip-api.com">>
           /\ (\E k \in 1..Len(response.result.calls) :
                     response.result.calls[k] = "ip-api.com")
                  => /\ response.result.calls[1] = "ipapi.co"
                     /\ response.result.calls[2] = "ip-api.com"

\* C23: for a non-local address, a location taken from the secondary
\* provider implies that it answered 200 with status = "success"; when the
\* primary failed and the secondary did not answer so, the result is
\* Unknown / Unknown; and country and city are always non-empty strings of
\* at most 100 characters.
C23_SecondaryOnlyOnSuccess ==
    NonLocal
        => /\ (Len(response.result.calls) = 2 /\ ~Unknowns)
                  => SecondaryOK(response.env)
           /\ (PrimaryFailed(response.env) /\ ~SecondaryOK(response.env))
                  => Unknowns
           /\ Len(response.result.country) \in 1..100
           /\ Len(response.result.city) \in 1..100

\* The primary failed, the secondary answered success with a country longer
\* than 100 characters and an empty city: the country is cut to 100, the
\* city is Unknown.
C23_Witness ==
    /\ NonLocal
    /\ PrimaryFailed(response.env)
    /\ SecondaryOK(response.env)
    /\ response.env.secondary.json.data.country = JStr(LongName)
    /\ Len(response.result.country) = 100
    /\ response.result.city = "Unknown"
    /\ response.result.calls = <<"ipapi.co", "ip-api.com">>

\* --------------------------------------------------------------------- C25
FallbackParsed == response.view = "parse_user_agent_fallback"

Has(kw) == kw \in response.keywords

\* C25: for a non-empty user-agent string, parse_user_agent_fallback returns
\* the device type, browser and operating system that the keyword rules
\* give, each by its first matching rule, for every combination of keywords
\* present in the string.
C25_FallbackFollowsKeywordRules ==
    FallbackParsed
        => /\ response.user_agent # ""
           /\ response.result.device_type =
                  (IF Has("mobile") \/ Has("android") \/ Has("iphone") \/ Has("ipod")
                   THEN "Mobile"
                   ELSE IF Has("ipad") \/ Has("tablet") THEN "Tablet"
                   ELSE "Desktop")
           /\ response.result.browser =
                  (CASE Has("chrome") /\ ~Has("edge") -> "Chrome"
                     [] ~(Has("chrome") /\ ~Has("edge")) /\ Has("firefox") -> "Firefox"
                     [] ~(Has("chrome") /\ ~Has("edge")) /\ ~Has("firefox")
                        /\ Has("safari") /\ ~Has("chrome") -> "Safari"
                     [] ~(Has("chrome") /\ ~Has("edge")) /\ ~Has("firefox")
                        /\ ~(Has("safari") /\ ~Has("chrome")) /\ Has("edge") -> "Edge"
                     [] ~Has("chrome") /\ ~Has("edge") /\ ~Has("firefox")
                        /\ ~Has("safari")
                        /\ (Has("opera") \/ Has("opr")) -> "Opera"
                     [] ~Has("chrome") /\ ~Has("edge") /\ ~Has("firefox")
                        /\ ~Has("safari") /\ ~Has("opera") /\ ~Has("opr")
                        /\ (Has("msie") \/ Has("trident")) -> "Internet Explorer"
                     [] OTHER -> "Unknown")
           /\ response.result.operating_system =
                  (CASE Has("windows") -> "Windows"
                     [] ~Has("windows")
                        /\ (Has("macintosh") \/ Has("mac os")) -> "macOS"
                     [] ~Has("windows") /\ ~Has("macintosh") /\ ~Has("mac os")
                        /\ Has("linux") -> "Linux"
                     [] ~Has("windows") /\ ~Has("macintosh") /\ ~Has("mac os")
                        /\ ~Has("linux") /\ Has("android") -> "Android"
                     [] ~Has("windows") /\ ~Has("macintosh") /\ ~Has("mac os")
                        /\ ~Has("linux") /\ ~Has("android")
                        /\ (Has("ios") \/ Has("iphone") \/ Has("ipad")) -> "iOS"
                     [] OTHER -> "Unknown")

\* A string with Chrome, Safari and Android in it: Safari loses to Chrome,
\* Android makes the device Mobile and, with no earlier rule matching, the
\* operating system Android.
C25_Witness ==
    /\ FallbackParsed
    /\ response.keywords = {"chrome", "safari", "android"}
    /\ response.result = [device_type |-> "Mobile", browser |-> "Chrome",
                          operating_system |-> "Android"]

\* --------------------------------------------------------------------- C24
\* C24: whatever the parser package and the two providers do (exception,
\* timeout, status other than 200, unparsable body), a redirect that the
\* link's policy allows is answered 302 to the destination, has inserted its
\* Click and has incremented clicks; where both providers failed the row's
\* country and city are "Unknown", and where the package is missing or
\* raised the device fields of a request with a User-Agent are still filled.
C24_EnrichmentFailureKeepsRedirect ==
    (GetAnswered /\ ~DeniedAt(PreLink, response.at) /\ PreLink.password = << >>)
        => /\ RedirectedToDestination
           /\ response.d_rows = 1
           /\ response.d_clicks = 1
           /\ LET row == click_records[Len(click_records)]
                  env == response.env
              IN  /\ row.url = response.short_code
                  /\ (/\ row.ip_address \notin Loopback
                      /\ PrimaryFailed(env)
                      /\ ~SecondaryOK(env))
                         => row.country = "Unknown" /\ row.city = "Unknown"
                  /\ (row.user_agent # "" /\ env.ua_lib.kind # "parsed")
                         => /\ row.device_type # ""
                            /\ row.browser # ""
                            /\ row.operating_system # ""

\* A request with a User-Agent from a public address was redirected and
\* counted although the parser raised, the primary provider timed out and
\* the secondary raised; its Click says Unknown / Unknown.
C24_Witness ==
    /\ GetAnswered
    /\ RedirectedToDestination
    /\ response.d_rows = 1 /\ response.d_clicks = 1
    /\ response.env.ua_lib.kind = "raises"
    /\ response.env.primary = Timeout
    /\ response.env.secondary = Raise
    /\ LET row == click_records[Len(click_records)]
       IN  /\ row.ip_address = "8.8.8.8"
           /\ row.user_agent # ""
           /\ row.country = "Unknown" /\ row.city = "Unknown"
           /\ row.device_type = "Mobile"

\* --------------------------------------------------------------------- C26
\* C26: every stored ShortenedURL has an original_url that begins with
\* http:// or https://, whether the dashboard form, the quick-shorten API or
\* the QR-code page created it.
C26_StoredUrlsAreHttp ==
    \A c \in DOMAIN links :
        \/ SubSeq(links[c].original_url, 1, 7) = "http://"
        \/ SubSeq(links[c].original_url, 1, 8) = "https://"

\* --------------------------------------------------------------------- C27
\* C27: no step lowers the clicks counter of a link, also when several
\* allowed redirects of the link interleave their read and their write of
\* clicks.
C27_ClicksNeverDecrease ==
    [][\A c \in DOMAIN links :
          c \in DOMAIN links' => links'[c].clicks >= links[c].clicks]_vars

\* --------------------------------------------------------------------- C28
\* The request in slot r writes the link c in this step (its url.save()).
Saves(r, c) ==
    /\ reqs[r].pc = "save"
    /\ reqs[r].short_code = c
    /\ reqs'[r].pc = "done"
    /\ reqs'[r].did_incr

\* C28: the url.save() of an allowed redirect changes no field of the link
\* other than clicks: is_active, expires_at, max_clicks, password and
\* original_url as committed just before the save (by an owner toggle that
\* ran after the redirect loaded the link, for one) are still stored after
\* it.
C28_RedirectWritesOnlyClicks ==
    [][\A c \in DOMAIN links, r \in Reqs :
          Saves(r, c)
              => /\ c \in DOMAIN links'
                 /\ [links'[c] EXCEPT !.clicks = 0] = [links[c] EXCEPT !.clicks = 0]]_vars

\* --------------------------------------------------------------------- C29
\* C29: a link with max_clicks = N, N >= 1, that started with clicks = 0 and
\* no Click rows never has clicks > N nor more than N Click rows, also when
\* redirects of the link run concurrently.
C29_QuotaBoundsClicksAndRows ==
    \A c \in DOMAIN links :
        (links[c].max_clicks # None /\ links[c].max_clicks >= 1)
            => /\ links[c].clicks <= links[c].max_clicks
               /\ Cardinality(RowsOf(c)) <= links[c].max_clicks

\* --------------------------------------------------------------------- C30
\* C30: after a run of populate_analytics without --force, every derived
\* field of every Click that was not empty before the run has the value it
\* had before the run.
C30_BackfillKeepsFilledFields ==
    (response.view = "populate_analytics" /\ ~response.force)
        => \A i \in 1..Len(response.before), f \in DerivedFields :
               response.before[i][f] # ""
                   => click_records[i][f] = response.before[i][f]

====
